---- MODULE Spec2Model ----
(***************************************************************************)
(* A model of ascii_art.py: the image -> ASCII-art converter.              *)
(*                                                                         *)
(*   image_to_ascii_lines   the resampler / quantizer                      *)
(*   find_monospace_font    the ordered font fallback                      *)
(*   render_ascii_to_image  the glyph rasterizer                           *)
(*   main                   the command-line pipeline                      *)
(*                                                                         *)
(* The numeric steps are modelled as the code computes them: the palette   *)
(* index goes through numpy's float32 arithmetic (division, subtraction,   *)
(* multiplication, each rounded to a 24-bit significand, then round half   *)
(* to even), the target height through float arithmetic and int().         *)
(***************************************************************************)
EXTENDS Integers, Sequences, FiniteSets, TLC

VARIABLES
    pc,         \* position of the run
    args,       \* the parsed command line / the arguments of the call
    env,        \* what the libraries answer: resampled pattern, glyph box
    fs,         \* the file system: path -> content, for the files that exist
    touched,    \* the files created or modified by the run, in order
    input_path, \* main's input_path
    img,        \* the source image (img of image_to_ascii_lines)
    gray,       \* the resampled grayscale grid (after line 101)
    idx,        \* the grid of palette indices (after line 112)
    lines,      \* the text lines
    err,        \* the exception that ended the run, or NoError
    font,       \* the font render_ascii_to_image ends up with
    canvas,     \* the canvas render_ascii_to_image allocates
    drawn       \* the draw.text calls, in order: <<y, line>>

vars == <<pc, args, env, fs, touched, input_path, img, gray, idx, lines,
          err, font, canvas, drawn>>

NoError == [type |-> "none", msg |-> "", exit |-> 0]

----------------------------------------------------------------------------
(* Bounds of the model.                                                    *)

\* the longest test palette handed to image_to_ascii_lines
MaxPaletteLen == 12
\* the largest target width
MaxWidth == 11
\* source heights are 1 .. MaxH0
MaxH0 == 4
\* source widths are 2^0 .. 2^MaxW0Exp
MaxW0Exp == 4
\* vertical scale factors are -1/8 .. MaxScaleNum/8
MaxScaleNum == 6

----------------------------------------------------------------------------
(* Constants of the program.                                               *)

\* DEFAULT_CHARSET / CHARSETS: one glyph per element.  The block and dot
\* glyphs outside ASCII are written by their code points.
CHARSETS ==
    [ dense  |-> <<"@", "%", "#", "*", "+", "=", "-", ":", ".", " ">>,
      blocks |-> <<"U+2588", "U+2593", "U+2592", "U+2591", " ">>,
      simple |-> <<"#", "*", "+", "=", "-", ":", ".", " ">>,
      dots   |-> <<"U+2022", ":", "U+00B7", ".", " ">> ]

CharsetNames == {"dense", "blocks", "simple", "dots"}

\* if width < 10: raise ValueError
MinWidth == 10

\* np.uint8 white
MaxIntensity == 255

\* float32 has a 24-bit significand
F32Bits == 24

----------------------------------------------------------------------------
(* Integer helpers.                                                        *)

Max(a, b) == IF a >= b THEN a ELSE b

Pow2(n) == 2 ^ n

\* n / d rounded to the nearest integer, ties to even (n >= 0, d > 0):
\* IEEE 754 round-to-nearest-even, and np.round / np.rint
RoundHalfEven(n, d) ==
    LET q == n \div d
        r == n % d
    IN  IF 2 * r < d THEN q
        ELSE IF 2 * r > d THEN q + 1
        ELSE IF q % 2 = 0 THEN q ELSE q + 1

\* the least s >= 0 with p < 2^(F32Bits + s)
RECURSIVE ExcessBits(_)
ExcessBits(p) == IF p < Pow2(F32Bits) THEN 0 ELSE 1 + ExcessBits(p \div 2)

\* the least k >= 0 with v * 2^k >= 128 (v >= 1)
RECURSIVE LeadShift(_)
LeadShift(v) == IF v >= 128 THEN 0 ELSE 1 + LeadShift(2 * v)

----------------------------------------------------------------------------
(* numpy float32 arithmetic of lines 110-111.                              *)
(*                                                                         *)
(* arr.astype(np.float32) / 255.0 is a float32 in [0, 1]: [m, e] stands    *)
(* for m / 2^e with 2^23 <= m < 2^24 (or m = 0).  1.0 - x is a multiple of *)
(* 2^-24 in [0, 1], kept as its numerator over 2^24; so is the product by  *)
(* len(charset) - 1 once rounded to 24 significant bits.                   *)

\* float32(v) / float32(255), correctly rounded; v in 0 .. 255.  The
\* quotient v * 2^e / 255 is taken 12 bits at a time to stay in 32 bits.
F32Div255(v) ==
    IF v = 0 THEN [m |-> 0, e |-> 0]
    ELSE IF v = MaxIntensity THEN [m |-> Pow2(F32Bits - 1), e |-> F32Bits - 1]
    ELSE LET k  == LeadShift(v)
             u  == v * Pow2(k)
             a  == u * Pow2(12)
             q1 == a \div MaxIntensity
             b  == (a % MaxIntensity) * Pow2(12)
             q2 == b \div MaxIntensity
             r2 == b % MaxIntensity
             q  == q1 * Pow2(12) + q2
         IN  [m |-> IF 2 * r2 > MaxIntensity THEN q + 1 ELSE q,
              e |-> F32Bits + k]

\* float32(1.0) - x, correctly rounded, as a numerator over 2^24
F32OneMinus(x) ==
    IF x.m = 0 THEN Pow2(F32Bits)
    ELSE IF x.e < F32Bits THEN 0
    ELSE Pow2(F32Bits) - RoundHalfEven(x.m, Pow2(x.e - F32Bits))

\* (n / 2^24) * float32(k), correctly rounded, as a numerator over 2^24
F32MulInt(n, k) ==
    LET p == n * k
        s == ExcessBits(p)
    IN  RoundHalfEven(p, Pow2(s)) * Pow2(s)

\* a mutant of F32Round: astype(np.int32) without .round() truncates
F32Round_Truncates(p) == p \div Pow2(F32Bits)

\* ndarray.round() of p / 2^24: to the nearest integer, ties to even
F32Round(p) == RoundHalfEven(p, Pow2(F32Bits))

\* np.clip(idx, 0, len(charset) - 1)
Clip(i, lo, hi) == IF i < lo THEN lo ELSE IF i > hi THEN hi ELSE i

\* a mutant of Flip: the "1 -" of line 110 left out
Flip_Missing(x) ==
    IF x.m = 0 THEN 0
    ELSE IF x.e < F32Bits THEN Pow2(F32Bits)
    ELSE RoundHalfEven(x.m, Pow2(x.e - F32Bits))

\* vals = 1.0 - (arr.astype(np.float32) / 255.0)
Flip(x) == F32OneMinus(x)

\* a mutant of InvertPixel: -arr in uint8 (256 - v modulo 256)
InvertPixel_Negates(v) == (MaxIntensity + 1 - v) % (MaxIntensity + 1)

\* arr = 255 - arr
InvertPixel(v) == MaxIntensity - v

\* lines 105-112 for one pixel: the palette index (0-based) of a resampled
\* intensity v for a palette of n glyphs
QuantIndex(v, n, invert) ==
    LET a    == IF invert THEN InvertPixel(v) ELSE v
        vals == Flip(F32Div255(a))
        i    == F32Round(F32MulInt(vals, n - 1))
    IN  Clip(i, 0, n - 1)

----------------------------------------------------------------------------
(* image_to_ascii_lines.                                                   *)
(*                                                                         *)
(* An image is [w0, h0, uniform, rgb]: its size and, when every pixel has  *)
(* the same colour, that colour.  The pixels of any other image are not    *)
(* modelled; what Image.resize makes of them is env.pattern, a gradient    *)
(* base + column * dx + row * dy modulo 256.  A grid is a sequence of rows.*)

NoImage == [w0 |-> 0, h0 |-> 0, uniform |-> TRUE, rgb |-> <<0, 0, 0>>]

\* img.convert("L") for one pixel: Pillow's ITU-R 601-2 luma in 16-bit
\* fixed point
ConvertL(rgb) ==
    (rgb[1] * 19595 + rgb[2] * 38470 + rgb[3] * 7471 + 32768) \div 65536

\* vertical scale factors are multiples of 1/8 and source widths powers of
\* two: every float operation of line 99-100 is then exact
ScaleDen == Pow2(3)

\* int(): truncation toward zero of n / d (d > 0)
IntTrunc(n, d) == IF n >= 0 THEN n \div d ELSE -((-n) \div d)

\* a mutant of NewHeight: round() in place of int()
NewHeight_Rounds(w0, h0, width, scaleNum) ==
    IF scaleNum <= 0 THEN 1
    ELSE Max(1, (2 * h0 * width * scaleNum + w0 * ScaleDen)
                    \div (2 * w0 * ScaleDen))

\* ratio = width / float(w0); new_h = max(1, int(h0 * ratio * scale_y))
NewHeight(w0, h0, width, scaleNum) ==
    Max(1, IntTrunc(h0 * width * scaleNum, w0 * ScaleDen))

\* gray.resize((width, new_h), Image.BICUBIC): a grid of new_h rows of
\* width pixels; a uniform image stays uniform (the filter's weights sum
\* to one), any other image gives the gradient the environment answers
Resize(image, width, new_h, pattern) ==
    [r \in 1 .. new_h |->
        [c \in 1 .. width |->
            IF image.uniform THEN ConvertL(image.rgb)
            ELSE (pattern.base + (c - 1) * pattern.dx + (r - 1) * pattern.dy)
                     % (MaxIntensity + 1)]]

\* a mutant of WidthTooSmall: the threshold of the error message (40)
WidthTooSmall_Forty(width) == width < 4 * MinWidth

\* if width < 10
WidthTooSmall(width) == width < MinWidth

WidthError ==
    [type |-> "ValueError",
     msg  |-> "Width is too small. Try >= 40, ideally 80-200.",
     exit |-> 1]

\* idx = np.clip((vals * (len(charset) - 1)).round(), 0, len(charset) - 1)
Quantize(g, n, invert) ==
    [r \in 1 .. Len(g) |->
        [c \in 1 .. Len(g[r]) |-> QuantIndex(g[r][c], n, invert)]]

\* lines = ["".join(charset[i] for i in row) for row in idx]
BuildLines(ix, charset) ==
    [r \in 1 .. Len(ix) |->
        [c \in 1 .. Len(ix[r]) |-> charset[ix[r][c] + 1]]]

\* the whole function, on the state: raises before anything else when the
\* width is too small, else sets gray, idx and lines
ImageToAsciiLines(image, width, charset, invert, scaleNum, pattern) ==
    IF WidthTooSmall(width)
    THEN /\ err' = WidthError
         /\ UNCHANGED <<gray, idx, lines>>
    ELSE /\ gray' = Resize(image, width,
                           NewHeight(image.w0, image.h0, width, scaleNum),
                           pattern)
         /\ idx' = Quantize(gray', Len(charset), invert)
         /\ lines' = BuildLines(idx', charset)
         /\ err' = NoError

----------------------------------------------------------------------------
(* Values of the parts of the state a specification does not use.          *)

NoPath == [dir |-> "", stem |-> "", ext |-> ""]
NoFont == [kind |-> "none", path |-> NoPath, size |-> 0]
NoCanvas == [allocated |-> FALSE, w |-> 0, h |-> 0]
NoFiles == [p \in {} |-> NoImage]
NoPattern == [base |-> 0, dx |-> 0, dy |-> 0]
NoBox == <<0, 0, 0, 0>>

DefaultArgs ==
    [demo |-> FALSE, input |-> NoPath, width |-> 120, charset |-> "dense",
     glyphs |-> CHARSETS["dense"], invert |-> FALSE, scale_y |-> 4,
     out_text |-> NoPath, out_image |-> NoPath, font_path |-> NoPath,
     font_size |-> 14]

----------------------------------------------------------------------------
(* SpecConvert: image_to_ascii_lines called on bounded inputs.             *)

\* a palette of n distinct glyphs
TestPalette(n) == [i \in 1 .. n |-> ToString(i)]

Palettes ==
    {CHARSETS[c] : c \in CharsetNames}
        \cup {TestPalette(n) : n \in 1 .. MaxPaletteLen}

Intensities == 0 .. MaxIntensity

UniformImage(w0, h0, rgb) ==
    [w0 |-> w0, h0 |-> h0, uniform |-> TRUE, rgb |-> rgb]
MixedImage(w0, h0) ==
    [w0 |-> w0, h0 |-> h0, uniform |-> FALSE, rgb |-> <<0, 0, 0>>]

Patterns(bases) == [base : bases, dx : {23}, dy : {7}]

Widths == {-3, 0, 5, MinWidth - 1} \cup (MinWidth .. MaxWidth)
ScaleNums == -1 .. MaxScaleNum
SourceWidths == {Pow2(k) : k \in 0 .. MaxW0Exp}
SourceHeights == 1 .. MaxH0

\* every intensity and every palette, on one small grid
QuantInputs ==
    LET imgs == {UniformImage(16, 8, <<v, v, v>>) : v \in Intensities}
                  \cup {UniformImage(16, 8, <<255, 0, 0>>),
                        UniformImage(16, 8, <<0, 255, 0>>),
                        UniformImage(16, 8, <<12, 200, 90>>)}
        a(g, inv) == [DefaultArgs EXCEPT !.width = MinWidth, !.glyphs = g,
                                         !.invert = inv]
    IN  {[img |-> i, args |-> a(g, inv), pattern |-> NoPattern] :
            i \in imgs, g \in Palettes, inv \in BOOLEAN}
        \cup {[img |-> MixedImage(16, 8), args |-> a(g, inv), pattern |-> p] :
                g \in Palettes, inv \in BOOLEAN, p \in Patterns(Intensities)}

\* every size, width and scale factor, on few intensities
SizeInputs ==
    LET a(w, s, inv) == [DefaultArgs EXCEPT !.width = w, !.scale_y = s,
                                            !.invert = inv]
    IN  {[img |-> UniformImage(w0, h0, <<0, 0, 0>>), args |-> a(w, s, inv),
          pattern |-> NoPattern] :
            w0 \in SourceWidths, h0 \in SourceHeights, w \in Widths,
            s \in ScaleNums, inv \in BOOLEAN}
        \cup {[img |-> MixedImage(w0, h0), args |-> a(w, s, FALSE),
               pattern |-> p] :
                w0 \in SourceWidths, h0 \in SourceHeights, w \in Widths,
                s \in ScaleNums, p \in Patterns({0, 200})}

InitConvert ==
    /\ \E i \in QuantInputs \cup SizeInputs :
          /\ img = i.img
          /\ args = i.args
          /\ env = [pattern |-> i.pattern, bbox |-> NoBox]
    /\ pc = "call"
    /\ fs = NoFiles
    /\ touched = <<>>
    /\ input_path = NoPath
    /\ gray = <<>>
    /\ idx = <<>>
    /\ lines = <<>>
    /\ err = NoError
    /\ font = NoFont
    /\ canvas = NoCanvas
    /\ drawn = <<>>

\* lines = image_to_ascii_lines(img, width, charset, invert, scale_y)
CallImageToAsciiLines ==
    /\ pc = "call"
    /\ ImageToAsciiLines(img, args.width, args.glyphs, args.invert,
                         args.scale_y, env.pattern)
    /\ pc' = IF WidthTooSmall(args.width) THEN "raised" ELSE "returned"
    /\ UNCHANGED <<args, env, fs, touched, input_path, img, font, canvas,
                   drawn>>

NextConvert == CallImageToAsciiLines

SpecConvert == InitConvert /\ [][NextConvert]_vars

----------------------------------------------------------------------------
(* The file system and the fonts.                                          *)
(*                                                                         *)
(* fs maps the paths that exist to their content: an image, a font file    *)
(* (loadable or not), a text or a rendered picture.  touched lists the     *)
(* files the run created or modified, with the step that did it.           *)

Path(dir, stem, ext) == [dir |-> dir, stem |-> stem, ext |-> ext]

Exists(p) == p \in DOMAIN fs

\* f with path p (created or overwritten) holding content c
WriteFile(f, p, c) ==
    [q \in DOMAIN f \cup {p} |-> IF q = p THEN c ELSE f[q]]

\* WINDOWS_FONT_CANDIDATES, in order
WINDOWS_FONT_CANDIDATES ==
    << Path("C:/Windows/Fonts", "consola", "ttf"),
       Path("C:/Windows/Fonts", "cour", "ttf"),
       Path("C:/Windows/Fonts", "lucon", "ttf") >>

FontFile(loadable) == [kind |-> "font", loadable |-> loadable]

\* ImageFont.truetype(path, size) returns a font: the file is a font
\* FreeType can read and the size is greater than zero (Pillow raises
\* ValueError for any other size, OSError for any other file)
TruetypeLoads(p, size) ==
    /\ Exists(p)
    /\ fs[p].kind = "font"
    /\ fs[p].loadable
    /\ size > 0

FreeTypeFont(p, size) == [kind |-> "FreeTypeFont", path |-> p, size |-> size]

\* ImageFont.load_default(): the built-in bitmap font
DefaultFont == [kind |-> "ImageFont", path |-> NoPath, size |-> 0]

\* lines 48-55: the first candidate from i on that exists and loads, else
\* the default font
RECURSIVE FirstCandidate(_)
FirstCandidate(i) ==
    IF i > Len(WINDOWS_FONT_CANDIDATES) THEN DefaultFont
    ELSE IF /\ Exists(WINDOWS_FONT_CANDIDATES[i])
            /\ TruetypeLoads(WINDOWS_FONT_CANDIDATES[i], 12)
         THEN FreeTypeFont(WINDOWS_FONT_CANDIDATES[i], 12)
         ELSE FirstCandidate(i + 1)

\* find_monospace_font(font_path); NoPath is font_path = None (or "")
FindMonospaceFont(font_path) ==
    IF font_path # NoPath /\ Exists(font_path) /\ TruetypeLoads(font_path, 12)
    THEN FreeTypeFont(font_path, 12)
    ELSE FirstCandidate(1)

\* char_cell_size(font): env.bbox is font.getbbox("A") = (x0, y0, x1, y1)
CharCellSize(bbox) ==
    [cw |-> Max(1, bbox[3] - bbox[1]), ch |-> Max(1, bbox[4] - bbox[2])]

----------------------------------------------------------------------------
(* render_ascii_to_image.                                                  *)

RECURSIVE MaxLineLen(_)
\* max((len(line) for line in lines), default=0)
MaxLineLen(ls) ==
    IF ls = <<>> THEN 0 ELSE Max(Len(Head(ls)), MaxLineLen(Tail(ls)))

TruetypeError ==
    [type |-> "TruetypeError",
     msg  |-> "font size must be greater than 0",
     exit |-> 1]

\* lines 132-134: the font is re-opened at the requested size, outside any
\* try: this is whether that re-open raises
ReopenRaises(font_path, font_size) ==
    LET f == FindMonospaceFont(font_path)
    IN  /\ f.kind = "FreeTypeFont"
        /\ font_size # 12
        /\ ~TruetypeLoads(f.path, font_size)

\* a mutant of Degenerate: only the empty list is replaced
Degenerate_RowsOnly(num_rows, num_cols) == num_rows = 0

\* if num_cols == 0 or num_rows == 0
Degenerate(num_rows, num_cols) == num_cols = 0 \/ num_rows = 0

\* the whole function, on the state
RenderAsciiToImage(ls, out_path, font_path, font_size) ==
    LET f == FindMonospaceFont(font_path)
    IN  IF ReopenRaises(font_path, font_size)
        THEN /\ font' = f
             /\ err' = TruetypeError
             /\ UNCHANGED <<canvas, drawn, fs, touched>>
        ELSE LET cell == CharCellSize(env.bbox)
                 deg  == Degenerate(Len(ls), MaxLineLen(ls))
                 num_rows == IF deg THEN 1 ELSE Len(ls)
                 num_cols == IF deg THEN 1 ELSE MaxLineLen(ls)
                 text == IF deg THEN << <<>> >> ELSE ls
             IN  /\ font' = IF f.kind = "FreeTypeFont" /\ font_size # 12
                            THEN FreeTypeFont(f.path, font_size) ELSE f
                 /\ canvas' = [allocated |-> TRUE,
                               w |-> Max(1, num_cols * cell.cw),
                               h |-> Max(1, num_rows * cell.ch)]
                 /\ drawn' = [r \in 1 .. Len(text) |->
                                 <<(r - 1) * cell.ch, text[r]>>]
                 /\ fs' = WriteFile(fs, out_path,
                                    [kind |-> "png", w |-> canvas'.w,
                                     h |-> canvas'.h])
                 /\ touched' = Append(touched,
                                      [path |-> out_path, by |-> "im.save"])
                 /\ err' = NoError

----------------------------------------------------------------------------
(* SpecRender: render_ascii_to_image called on bounded inputs.             *)

\* lists of lines have at most MaxRows lines of at most MaxCols characters
MaxRows == 2
MaxCols == 2

Line(n) == [i \in 1 .. n |-> "#"]

RECURSIVE LineLists(_)
\* the lists of exactly n lines
LineLists(n) ==
    IF n = 0 THEN {<<>>}
    ELSE {Append(l, Line(k)) : l \in LineLists(n - 1), k \in 0 .. MaxCols}

RenderLines == UNION {LineLists(n) : n \in 0 .. MaxRows}

UserFont == Path("fonts", "mono", "ttf")
OutPng == Path("out", "art", "png")

\* the font files there are: each of the candidates and the user's font is
\* absent, unreadable or readable
FontFileSystems ==
    LET ps == {WINDOWS_FONT_CANDIDATES[i] : i \in 1 .. 3} \cup {UserFont}
    IN  UNION {[present -> {FontFile(TRUE), FontFile(FALSE)}] :
                   present \in SUBSET ps}

GlyphBoxes == {<<0, 0, 0, 0>>, <<0, 3, 7, 12>>, <<1, 2, 9, 13>>}

InitRender ==
    /\ pc = "call"
    /\ lines \in RenderLines
    /\ fs \in FontFileSystems
    /\ \E fp \in {NoPath, UserFont}, sz \in {0, 12, 14} :
          args = [DefaultArgs EXCEPT !.font_path = fp, !.font_size = sz,
                                     !.out_image = OutPng]
    /\ \E b \in GlyphBoxes : env = [pattern |-> NoPattern, bbox |-> b]
    /\ touched = <<>>
    /\ input_path = NoPath
    /\ img = NoImage
    /\ gray = <<>>
    /\ idx = <<>>
    /\ err = NoError
    /\ font = NoFont
    /\ canvas = NoCanvas
    /\ drawn = <<>>

\* render_ascii_to_image(lines, out_path, font_path, font_size)
CallRenderAsciiToImage ==
    /\ pc = "call"
    /\ RenderAsciiToImage(lines, args.out_image, args.font_path,
                          args.font_size)
    /\ pc' = IF ReopenRaises(args.font_path, args.font_size)
             THEN "raised" ELSE "returned"
    /\ UNCHANGED <<args, env, input_path, img, gray, idx, lines>>

NextRender == CallRenderAsciiToImage

SpecRender == InitRender /\ [][NextRender]_vars

----------------------------------------------------------------------------
(* main: the pipeline, one action per step.                                *)

\* Path("examples/demo.png")
DemoPath == Path("examples", "demo", "png")

\* an image file
ImageFile(i) == [kind |-> "image", image |-> i]

\* generate_demo_image: a 256 x 256 gradient
DemoImage == [w0 |-> 256, h0 |-> 256, uniform |-> FALSE, rgb |-> <<0, 0, 0>>]

\* out_dir / f"{stem}_{args.width}.{ext}"
DefaultOut(stem, width, ext) == Path("out", stem \o "_" \o ToString(width), ext)

\* out_txt = Path(args.out_text) if args.out_text else the default
OutTextPath ==
    IF args.out_text # NoPath THEN args.out_text
    ELSE DefaultOut(input_path.stem, args.width, "txt")

\* out_png = Path(args.out_image) if args.out_image else the default
OutImagePath ==
    IF args.out_image # NoPath THEN args.out_image
    ELSE DefaultOut(input_path.stem, args.width, "png")

NoInputError ==
    [type |-> "SystemExit",
     msg  |-> "Error: provide --input <path> or use --demo.",
     exit |-> 1]
NotFoundError ==
    [type |-> "SystemExit",
     msg  |-> "Error: input image not found",
     exit |-> 1]
OpenError ==
    [type |-> "OSError", msg |-> "cannot identify image file", exit |-> 1]

\* a mutant of ResolveInput: the existence of --input is not checked
ResolveInput_NoExistsCheck ==
    /\ pc = "resolve"
    /\ IF args.demo
       THEN /\ input_path' = DemoPath
            /\ IF Exists(DemoPath)
               THEN UNCHANGED <<fs, touched>>
               ELSE /\ fs' = WriteFile(fs, DemoPath, ImageFile(DemoImage))
                    /\ touched' = Append(touched,
                           [path |-> DemoPath, by |-> "generate_demo_image"])
            /\ pc' = "load"
            /\ UNCHANGED err
       ELSE IF args.input = NoPath
       THEN /\ err' = NoInputError
            /\ pc' = "exit"
            /\ UNCHANGED <<input_path, fs, touched>>
       ELSE /\ input_path' = args.input
            /\ pc' = "load"
            /\ UNCHANGED <<err, fs, touched>>
    /\ UNCHANGED <<args, env, img, gray, idx, lines, font, canvas, drawn>>

\* a mutant of ResolveInput: the output text file is opened (created) before
\* the input is checked
ResolveInput_OpensOutputFirst ==
    /\ pc = "resolve"
    /\ fs' = WriteFile(fs, OutTextPath, [kind |-> "text", lines |-> <<>>])
    /\ touched' = Append(touched, [path |-> OutTextPath, by |-> "write_text"])
    /\ IF args.demo
       THEN /\ input_path' = DemoPath
            /\ pc' = "load"
            /\ UNCHANGED err
       ELSE IF args.input = NoPath
       THEN /\ err' = NoInputError
            /\ pc' = "exit"
            /\ UNCHANGED input_path
       ELSE IF ~Exists(args.input)
       THEN /\ err' = NotFoundError
            /\ pc' = "exit"
            /\ UNCHANGED input_path
       ELSE /\ input_path' = args.input
            /\ pc' = "load"
            /\ UNCHANGED err
    /\ UNCHANGED <<args, env, img, gray, idx, lines, font, canvas, drawn>>

\* lines 181-193: resolve input
ResolveInput ==
    /\ pc = "resolve"
    /\ IF args.demo
       THEN /\ input_path' = DemoPath
            /\ IF Exists(DemoPath)
               THEN UNCHANGED <<fs, touched>>
               ELSE /\ fs' = WriteFile(fs, DemoPath, ImageFile(DemoImage))
                    /\ touched' = Append(touched,
                           [path |-> DemoPath, by |-> "generate_demo_image"])
            /\ pc' = "load"
            /\ UNCHANGED err
       ELSE IF args.input = NoPath
       THEN /\ err' = NoInputError
            /\ pc' = "exit"
            /\ UNCHANGED <<input_path, fs, touched>>
       ELSE IF ~Exists(args.input)
       THEN /\ err' = NotFoundError
            /\ pc' = "exit"
            /\ UNCHANGED <<input_path, fs, touched>>
       ELSE /\ input_path' = args.input
            /\ pc' = "load"
            /\ UNCHANGED <<err, fs, touched>>
    /\ UNCHANGED <<args, env, img, gray, idx, lines, font, canvas, drawn>>

\* img = Image.open(input_path).convert("RGB")
LoadImage ==
    /\ pc = "load"
    /\ IF Exists(input_path) /\ fs[input_path].kind = "image"
       THEN /\ img' = fs[input_path].image
            /\ pc' = "convert"
            /\ UNCHANGED err
       ELSE /\ err' = OpenError
            /\ pc' = "exit"
            /\ UNCHANGED img
    /\ UNCHANGED <<args, env, fs, touched, input_path, gray, idx, lines,
                   font, canvas, drawn>>

\* charset = CHARSETS[args.charset]; lines = image_to_ascii_lines(...)
Convert ==
    /\ pc = "convert"
    /\ ImageToAsciiLines(img, args.width, CHARSETS[args.charset],
                         args.invert, args.scale_y, env.pattern)
    /\ pc' = IF WidthTooSmall(args.width) THEN "exit" ELSE "write"
    /\ UNCHANGED <<args, env, fs, touched, input_path, img, font, canvas,
                   drawn>>

\* out_txt.write_text("\n".join(lines), encoding="utf-8")
WriteText ==
    /\ pc = "write"
    /\ fs' = WriteFile(fs, OutTextPath, [kind |-> "text", lines |-> lines])
    /\ touched' = Append(touched, [path |-> OutTextPath, by |-> "write_text"])
    /\ pc' = "render"
    /\ UNCHANGED <<args, env, input_path, img, gray, idx, lines, err, font,
                   canvas, drawn>>

\* render_ascii_to_image(lines, out_png, args.font_path, args.font_size)
Render ==
    /\ pc = "render"
    /\ RenderAsciiToImage(lines, OutImagePath, args.font_path,
                          args.font_size)
    /\ pc' = IF ReopenRaises(args.font_path, args.font_size)
             THEN "exit" ELSE "done"
    /\ UNCHANGED <<args, env, input_path, img, gray, idx, lines>>

InPath == Path("examples", "photo", "jpg")
MissingPath == Path("examples", "nothing", "jpg")
TextPath == Path("out", "art", "txt")

\* the files before the run: the photo, perhaps the demo image, the fonts
MainFileSystems ==
    LET base(i) == WriteFile(WriteFile(NoFiles, InPath, ImageFile(i)),
                             UserFont, FontFile(TRUE))
        photos  == {UniformImage(16, 8, <<0, 0, 0>>), MixedImage(16, 8)}
    IN  {base(i) : i \in photos}
        \cup {WriteFile(base(i), DemoPath, ImageFile(MixedImage(8, 8))) :
                 i \in photos}
        \cup {WriteFile(base(i), WINDOWS_FONT_CANDIDATES[1], FontFile(TRUE)) :
                 i \in photos}

Init ==
    /\ pc = "resolve"
    /\ fs \in MainFileSystems
    /\ \E d \in BOOLEAN, i \in {NoPath, InPath, MissingPath},
          w \in {5, MinWidth - 1, MinWidth, MaxWidth},
          cs \in {"dense", "dots"}, inv \in BOOLEAN,
          ot \in {NoPath, TextPath, DemoPath},
          oi \in {NoPath, OutPng, DemoPath},
          fp \in {NoPath, UserFont}, sz \in {0, 14} :
          args = [demo |-> d, input |-> i, width |-> w, charset |-> cs,
                  glyphs |-> CHARSETS[cs], invert |-> inv, scale_y |-> 4,
                  out_text |-> ot, out_image |-> oi, font_path |-> fp,
                  font_size |-> sz]
    /\ env = [pattern |-> [base |-> 40, dx |-> 23, dy |-> 7],
              bbox |-> <<0, 3, 7, 12>>]
    /\ touched = <<>>
    /\ input_path = NoPath
    /\ img = NoImage
    /\ gray = <<>>
    /\ idx = <<>>
    /\ lines = <<>>
    /\ err = NoError
    /\ font = NoFont
    /\ canvas = NoCanvas
    /\ drawn = <<>>

Next == ResolveInput \/ LoadImage \/ Convert \/ WriteText \/ Render

Spec == Init /\ [][Next]_vars

----------------------------------------------------------------------------
(* Claims about image_to_ascii_lines, checked under SpecConvert.           *)

Returned == pc = "returned"
PaletteLen == Len(args.glyphs)
Rows == 1 .. Len(lines)
Cols(r) == 1 .. Len(lines[r])
IsPreset == \E c \in CharsetNames : args.glyphs = CHARSETS[c]

\* round((1 - v/255) * (n - 1)) in exact arithmetic: the value is
\* (255 - v)(n - 1) / 255, which is never half-way between two integers
ExactIndex(v, n) == (2 * (255 - v) * (n - 1) + 255) \div 510

\* C1: with invert = false the character at every position is
\* charset[k], k = round((1 - v/255) * (N - 1)) of that position's resampled
\* intensity v, with 0 <= k <= N - 1; a grid of equal resampled pixels gives
\* one character repeated everywhere.
C1_IndexIsRoundedFlip ==
    (Returned /\ ~args.invert) =>
        /\ \A r \in Rows : \A c \in Cols(r) :
              LET k == ExactIndex(gray[r][c], PaletteLen)
              IN  /\ 0 <= k /\ k <= PaletteLen - 1
                  /\ idx[r][c] = k
                  /\ lines[r][c] = args.glyphs[k + 1]
        /\ (\A r \in Rows : \A c \in Cols(r) : gray[r][c] = gray[1][1])
              => \A r \in Rows : \A c \in Cols(r) : lines[r][c] = lines[1][1]

C1_Witness ==
    /\ Returned /\ ~args.invert
    /\ PaletteLen = 7
    /\ gray[1][1] = 106 /\ idx[1][1] = 4 /\ lines[1][1] = "5"
    /\ lines[1][2] # lines[1][1]

\* C2: an all-black grid gives the last character of a preset palette
\* everywhere with invert = false, the first with invert = true.
C2_BlackGrid ==
    (Returned /\ IsPreset /\ img.uniform /\ img.rgb = <<0, 0, 0>>) =>
        /\ Len(lines) >= 1
        /\ \A r \in Rows : \A c \in Cols(r) :
              lines[r][c] = IF args.invert THEN args.glyphs[1]
                            ELSE args.glyphs[PaletteLen]

C2_Witness ==
    /\ Returned /\ img.uniform /\ img.rgb = <<0, 0, 0>>
    /\ args.invert
    /\ args.glyphs = CHARSETS["blocks"]
    /\ lines[1][1] = "U+2588"

\* the visual weight of a glyph: the blank has no ink at all, every other
\* glyph of the palettes has some
Ink(g) == IF g = " " THEN 0 ELSE 1

\* C3: the preset palettes run from the lightest glyph (index 0) to the
\* heaviest (index N - 1), so with invert = false a darker pixel never gets a
\* lighter glyph than a brighter pixel, and with invert = true the reverse.
C3_DarkerIsHeavier ==
    (Returned /\ IsPreset) =>
        /\ \A i \in 1 .. PaletteLen :
              /\ Ink(args.glyphs[1]) <= Ink(args.glyphs[i])
              /\ Ink(args.glyphs[i]) <= Ink(args.glyphs[PaletteLen])
        /\ \A r1 \in Rows : \A c1 \in Cols(r1) :
          \A r2 \in Rows : \A c2 \in Cols(r2) :
            gray[r1][c1] < gray[r2][c2] =>
                IF args.invert
                THEN Ink(lines[r1][c1]) <= Ink(lines[r2][c2])
                ELSE Ink(lines[r1][c1]) >= Ink(lines[r2][c2])

\* C4: the index with invert = true is (N - 1) minus the index with
\* invert = false, at every position, for every palette length.
C4_InvertMirrors ==
    Returned =>
        \A r \in Rows : \A c \in Cols(r) :
            QuantIndex(gray[r][c], PaletteLen, ~args.invert)
                = (PaletteLen - 1) - idx[r][c]

C4_Witness ==
    /\ Returned /\ args.invert
    /\ PaletteLen = 10
    /\ gray[1][1] = 100 /\ idx[1][1] = 4
    /\ QuantIndex(100, 10, FALSE) = 5

\* h0 * (width / w0) * scale_y as a fraction: numerator and denominator
HeightNum == img.h0 * args.width * args.scale_y
HeightDen == img.w0 * 8

\* C5 as stated: round(H0 * (W / W0) * s) lines of W characters each
\* (already for the scale factors above zero).
C5_RoundedHeight ==
    (Returned /\ args.scale_y > 0) =>
        /\ Len(lines) = IF HeightNum >= 0
                        THEN RoundHalfEven(HeightNum, HeightDen)
                        ELSE -RoundHalfEven(-HeightNum, HeightDen)
        /\ \A r \in Rows : Len(lines[r]) = args.width

\* C5 as amended: max(1, trunc(H0 * (W / W0) * s)) lines of W characters
\* each: k lines with k <= H0 * (W / W0) * s < k + 1, or one line when the
\* product is below 2.
C5_TruncatedHeight ==
    Returned =>
        /\ \/ /\ Len(lines) >= 1
              /\ Len(lines) * HeightDen <= HeightNum
              /\ HeightNum < (Len(lines) + 1) * HeightDen
           \/ /\ Len(lines) = 1
              /\ HeightNum < 2 * HeightDen
        /\ \A r \in Rows : Len(lines[r]) = args.width
        /\ Len(gray) = Len(lines)

\* the product is 2.75: int() gives 2 where round() gives 3
C5_Witness ==
    /\ Returned
    /\ img.w0 = 4 /\ img.h0 = 2 /\ args.width = 11 /\ args.scale_y = 4
    /\ Len(lines) = 2
    /\ Len(lines[2]) = 11

\* C6: the configuration error is raised for every width below 10, before
\* anything is converted, resized or quantized, and for no width of 10 or
\* more.
C6_WidthError ==
    /\ (pc = "raised") <=> (pc # "call" /\ args.width < 10)
    /\ (pc = "raised") =>
          /\ err.type = "ValueError"
          /\ gray = <<>> /\ idx = <<>> /\ lines = <<>>
    /\ Returned => (args.width >= 10 /\ err = NoError /\ Len(gray) >= 1)

C6_Witness ==
    /\ pc = "raised" /\ args.width = 5
    /\ err.type = "ValueError" /\ lines = <<>>

----------------------------------------------------------------------------
(* Claims about render_ascii_to_image and find_monospace_font, checked     *)
(* under SpecRender.                                                       *)

LineLens == {Len(lines[r]) : r \in 1 .. Len(lines)}
\* the length of the longest line
Longest == CHOOSE m \in LineLens : \A k \in LineLens : k <= m

\* the glyph cell: the box of "A", each side at least one pixel
CellW == IF env.bbox[3] - env.bbox[1] >= 1 THEN env.bbox[3] - env.bbox[1] ELSE 1
CellH == IF env.bbox[4] - env.bbox[2] >= 1 THEN env.bbox[4] - env.bbox[2] ELSE 1

\* C8: the canvas never has zero area; for no lines, or lines that are all
\* empty, it is exactly one glyph cell with one empty line drawn; for any
\* other input it is (cols * cw) x (rows * ch), cols the longest line, and
\* row r is drawn at r * ch.  The lines never make the call fail: it fails
\* only when the font cannot be re-opened at the requested size.
C8_Canvas ==
    /\ canvas.allocated => (canvas.w >= 1 /\ canvas.h >= 1)
    /\ (pc = "returned") =>
          /\ canvas.allocated
          /\ IF lines = <<>> \/ Longest = 0
             THEN /\ canvas.w = CellW /\ canvas.h = CellH
                  /\ drawn = << <<0, <<>>>> >>
             ELSE /\ canvas.w = Longest * CellW
                  /\ canvas.h = Len(lines) * CellH
                  /\ Len(drawn) = Len(lines)
                  /\ \A r \in 1 .. Len(lines) :
                        drawn[r] = <<(r - 1) * CellH, lines[r]>>
    /\ (pc = "raised") =>
          /\ font.kind = "FreeTypeFont"
          /\ args.font_size <= 0
          /\ ~canvas.allocated

\* two empty lines: one cell of 7 x 9, one empty line drawn
C8_Witness ==
    /\ pc = "returned"
    /\ lines = << <<>>, <<>> >>
    /\ env.bbox = <<0, 3, 7, 12>>
    /\ canvas = [allocated |-> TRUE, w |-> 7, h |-> 9]
    /\ drawn = << <<0, <<>>>> >>

FontOrder == <<args.font_path>> \o WINDOWS_FONT_CANDIDATES
Usable(p) == p # NoPath /\ Exists(p) /\ fs[p].kind = "font" /\ fs[p].loadable

\* C9: font selection tries the requested path, then consola, cour, lucon,
\* uses the first that exists and loads, else the built-in font, and no
\* font-loading failure ends the call with an error, the re-open at the
\* requested size included.
C9_FontFallbackNeverFails ==
    (pc # "call") =>
        /\ \/ \E i \in 1 .. Len(FontOrder) :
                 /\ Usable(FontOrder[i])
                 /\ \A j \in 1 .. i - 1 : ~Usable(FontOrder[j])
                 /\ font.kind = "FreeTypeFont"
                 /\ font.path = FontOrder[i]
           \/ /\ \A i \in 1 .. Len(FontOrder) : ~Usable(FontOrder[i])
              /\ font = DefaultFont
        /\ err = NoError
        /\ pc = "returned"

----------------------------------------------------------------------------
(* Claims about main, checked under Spec.                                  *)

InputMissing == args.input = NoPath \/ ~Exists(args.input)

\* C7: without --demo, no input path or a path that does not exist ends the
\* run with a non-zero exit and a message before any image is loaded or
\* converted; with --demo the missing-input error is never raised: the demo
\* image is generated if absent and used, whatever --input says.
C7_MissingInput ==
    /\ (~args.demo /\ InputMissing) =>
          /\ pc \in {"resolve", "exit"}
          /\ img = NoImage /\ gray = <<>> /\ lines = <<>>
          /\ (pc = "exit") =>
                (err.type = "SystemExit" /\ err.exit # 0 /\ err.msg # "")
    /\ (err.type = "SystemExit") => (~args.demo /\ InputMissing)
    /\ args.demo =>
          /\ (pc # "resolve") => (input_path = DemoPath /\ Exists(DemoPath))
          /\ (pc = "convert") => img = fs[DemoPath].image

C7_Witness ==
    /\ pc = "exit"
    /\ ~args.demo /\ args.input = MissingPath
    /\ err = NotFoundError
    /\ img = NoImage

Touches(p) == \E i \in 1 .. Len(touched) : touched[i].path = p
AbortedByUser == pc = "exit" /\ err.type \in {"SystemExit", "ValueError"}

\* the text is written after the input is resolved and the width checked,
\* the image after the text
WriteOrder ==
    \A i \in 1 .. Len(touched) :
        /\ (touched[i].by = "write_text") =>
              /\ input_path # NoPath
              /\ args.width >= 10
              /\ pc \in {"render", "done", "exit"}
        /\ (touched[i].by = "im.save") =>
              \E j \in 1 .. i - 1 : touched[j].by = "write_text"

\* C10 as stated: when the run aborts on a width below the minimum or on a
\* missing input, neither output file has been created or modified; the
\* input and the width are checked before the text is written, the text is
\* written before the image.
C10_NoOutputAtAbort ==
    /\ AbortedByUser => (~Touches(OutTextPath) /\ ~Touches(OutImagePath))
    /\ WriteOrder

\* C10 as amended: at such an abort the text and the image have not been
\* written; the only file the run may have created is the demo image, which
\* is an output file only when --demo is set and an output path names it.
C10_NoOutputWrittenAtAbort ==
    /\ AbortedByUser =>
          \A i \in 1 .. Len(touched) :
              /\ touched[i].by = "generate_demo_image"
              /\ touched[i].path \in {OutTextPath, OutImagePath} =>
                    (args.demo /\ touched[i].path = DemoPath)
    /\ AbortedByUser =>
          \A p \in {OutTextPath, OutImagePath} :
              (p # DemoPath \/ ~args.demo) => ~Touches(p)
    /\ WriteOrder

C10_Witness ==
    /\ AbortedByUser
    /\ err.type = "ValueError"
    /\ args.demo /\ args.out_text = DemoPath
    /\ touched = << [path |-> DemoPath, by |-> "generate_demo_image"] >>

====
